---- MODULE Spec2Model ----
(***************************************************************************)
(* Harbor & Vale - King County Survival Guide (demo backend, src/app.py).  *)
(*                                                                         *)
(* The module models the in-memory stores and the request handlers of      *)
(* src/app.py as state machines, one specification per subsystem:          *)
(*   SpecTriage  - ai_triage, the keyword classifier                       *)
(*   SpecSearch  - _expand and fetch_services over DATA_CACHE["items"]     *)
(*   SpecLoad    - try_load_data, the loader's source chain                *)
(*   SpecApp     - EVENTS / INTAKES / REPORTS, sessions and the handlers   *)
(*   SpecRate    - check_rate called from concurrent request threads       *)
(*   SpecRateSeq - check_rate called from one thread only                  *)
(*   SpecCsv     - try_load_data on services.csv alone, numeric columns    *)
(*   SpecIntake  - submit_form, refer and report on concurrent threads     *)
(*   SpecRequery - one fetch_services call after another                   *)
(*                                                                         *)
(* Python strings are modelled as sequences of one-character strings, so   *)
(* that `in`, lower() and strip() are computed character by character.     *)
(* None is the one-element sequence <<"None">>, which no str equals; a     *)
(* result not yet returned is the empty sequence, a returned one <<r>>.    *)
(***************************************************************************)
EXTENDS Integers, Sequences, FiniteSets, TLC

VARIABLES
    \* ---- ai_triage ----
    triage_input,      \* the user_input handed to ai_triage
    triage_result,     \* <<what ai_triage returned>>, <<>> before the call
    \* ---- _expand / fetch_services ----
    DATA_CACHE,        \* [items, source]
    expand_q,          \* the argument of the last _expand call
    expand_terms,      \* <<its result>>, <<>> before any call
    fetch_args,        \* <<the arguments of the last fetch_services call>>
    fetch_result,      \* <<its result>>: the returned records, as indices into items
    \* ---- try_load_data ----
    sources,           \* what the sheet URL, services.csv and services.json hold
    load_status,       \* "pending", "done" or "raised"
    \* ---- the in-memory stores and the session-gated handlers ----
    EVENTS,            \* deque(maxlen), newest first
    INTAKES,           \* deque(maxlen), newest first
    REPORTS,           \* deque(maxlen), newest first
    _next_intake_id,   \* _next_intake_id["v"]
    session,           \* per client: the role stored in its session cookie
    req,               \* the request (or call) handled last
    resp,              \* the response it got
    n_requests,        \* requests handled so far
    \* ---- check_rate ----
    RATE,              \* RATE[scope][ip]: the bucket, a deque of timestamps
    RATE_LOCK,         \* the thread holding RATE_LOCK, or "free"
    clock,             \* what time.time() returns
    max_hits,          \* the max_hits every call passes
    window_sec,        \* the window_sec every call passes
    pc,                \* per thread: where it is in check_rate
    frame,             \* per thread: its ip, now and the bucket as it found it
    calls,             \* per ip: the calls that returned, in order of return
    \* ---- the intake handlers run by concurrent request threads ----
    at,                \* per thread: where it is in submit_form, refer or report
    local              \* per thread: its handler and the iid it read

None == <<"None">>

triageVars == <<triage_input, triage_result>>
searchVars == <<DATA_CACHE, expand_q, expand_terms, fetch_args, fetch_result>>
loadVars == <<sources, load_status>>
appVars == <<EVENTS, INTAKES, REPORTS, _next_intake_id, session, req, resp, n_requests>>
rateVars == <<RATE, RATE_LOCK, clock, max_hits, window_sec, pc, frame, calls>>
threadVars == <<at, local>>
vars == <<triageVars, searchVars, loadVars, appVars, rateVars, threadVars>>

(***************************************************************************)
(* Python str operations                                                   *)
(***************************************************************************)
UPPERCASE == <<"A","B","C","D","E","F","G","H","I","J","K","L","M","N","O","P","Q","R","S","T","U","V","W","X","Y","Z">>
LOWERCASE == <<"a","b","c","d","e","f","g","h","i","j","k","l","m","n","o","p","q","r","s","t","u","v","w","x","y","z">>
WHITESPACE == {" ", "\t", "\n"}
DIGITS == <<"0","1","2","3","4","5","6","7","8","9">>

\* str.lower(), one character
lower_ch(c) ==
    IF \E i \in DOMAIN UPPERCASE : UPPERCASE[i] = c
    THEN LOWERCASE[CHOOSE i \in DOMAIN UPPERCASE : UPPERCASE[i] = c]
    ELSE c

\* str.lower()
lower(s) == [i \in 1..Len(s) |-> lower_ch(s[i])]

\* str.strip(): leading and trailing whitespace removed
strip(s) ==
    LET keep == {i \in 1..Len(s) : s[i] \notin WHITESPACE}
    IN  IF keep = {} THEN <<>>
        ELSE LET first == CHOOSE i \in keep : \A j \in keep : i <= j
                 last  == CHOOSE i \in keep : \A j \in keep : j <= i
             IN  SubSeq(s, first, last)

\* `needle in hay` for two str
Contains(hay, needle) ==
    \E i \in 0..(Len(hay) - Len(needle)) : SubSeq(hay, i + 1, i + Len(needle)) = needle

\* any(k in text for k in keys)
AnyIn(keys, text) == \E i \in DOMAIN keys : Contains(text, keys[i])

\* `x or ""` for a str-or-None
OrEmpty(x) == IF x = None THEN <<>> ELSE x

(***************************************************************************)
(* ai_triage (src/app.py 394-412)                                          *)
(***************************************************************************)
\* ("overdose","od","not breathing","unconscious","seizure","violence","in danger","threat")
K_emergency ==
    << <<"o","v","e","r","d","o","s","e">>, <<"o","d">>, <<"n","o","t"," ","b","r","e","a","t","h","i","n","g">>, <<"u","n","c","o","n","s","c","i","o","u","s">>, <<"s","e","i","z","u","r","e">>,
       <<"v","i","o","l","e","n","c","e">>, <<"i","n"," ","d","a","n","g","e","r">>, <<"t","h","r","e","a","t">> >>
\* ("suicide","kill myself","end my life","self harm","self-harm")
K_mental_crisis ==
    << <<"s","u","i","c","i","d","e">>, <<"k","i","l","l"," ","m","y","s","e","l","f">>, <<"e","n","d"," ","m","y"," ","l","i","f","e">>, <<"s","e","l","f"," ","h","a","r","m">>, <<"s","e","l","f","-","h","a","r","m">> >>
\* ("medical","doctor","clinic","nurse","health","sick","injury","hurt","wound")
K_medical ==
    << <<"m","e","d","i","c","a","l">>, <<"d","o","c","t","o","r">>, <<"c","l","i","n","i","c">>, <<"n","u","r","s","e">>, <<"h","e","a","l","t","h">>, <<"s","i","c","k">>,
       <<"i","n","j","u","r","y">>, <<"h","u","r","t">>, <<"w","o","u","n","d">> >>
\* ("housing","shelter","bed","room","sleep","unhoused","tent")
K_housing ==
    << <<"h","o","u","s","i","n","g">>, <<"s","h","e","l","t","e","r">>, <<"b","e","d">>, <<"r","o","o","m">>, <<"s","l","e","e","p">>, <<"u","n","h","o","u","s","e","d">>, <<"t","e","n","t">> >>
\* ("id","ids","identification","license","dmv","birth certificate","documents")
K_id ==
    << <<"i","d">>, <<"i","d","s">>, <<"i","d","e","n","t","i","f","i","c","a","t","i","o","n">>, <<"l","i","c","e","n","s","e">>, <<"d","m","v">>,
       <<"b","i","r","t","h"," ","c","e","r","t","i","f","i","c","a","t","e">>, <<"d","o","c","u","m","e","n","t","s">> >>
\* ("food","meal","meals","groceries","food bank","hungry")
K_food ==
    << <<"f","o","o","d">>, <<"m","e","a","l">>, <<"m","e","a","l","s">>, <<"g","r","o","c","e","r","i","e","s">>, <<"f","o","o","d"," ","b","a","n","k">>, <<"h","u","n","g","r","y">> >>
\* ("detox","withdrawal","sobering","sobering center","fentanyl","alcohol","heroin")
K_detox ==
    << <<"d","e","t","o","x">>, <<"w","i","t","h","d","r","a","w","a","l">>, <<"s","o","b","e","r","i","n","g">>, <<"s","o","b","e","r","i","n","g"," ","c","e","n","t","e","r">>, <<"f","e","n","t","a","n","y","l">>,
       <<"a","l","c","o","h","o","l">>, <<"h","e","r","o","i","n">> >>
\* ("mental","anxiety","depression","counseling","therapy","psychiatry")
K_mental_health ==
    << <<"m","e","n","t","a","l">>, <<"a","n","x","i","e","t","y">>, <<"d","e","p","r","e","s","s","i","o","n">>, <<"c","o","u","n","s","e","l","i","n","g">>, <<"t","h","e","r","a","p","y">>,
       <<"p","s","y","c","h","i","a","t","r","y">> >>

Triage(cat, rec) == [category |-> cat, recommendation |-> rec]

\* the chain with the medical test moved in front of the two crisis tests
ai_triage_medical_first(user_input) ==
    LET text == strip(lower(OrEmpty(user_input)))
    IN  IF AnyIn(K_medical, text) THEN Triage("medical", "Visit Harbor Free Clinic")
        ELSE IF AnyIn(K_emergency, text) THEN Triage("emergency", "Emergency: call 911")
        ELSE IF AnyIn(K_mental_crisis, text)
             THEN Triage("mental_crisis", "Crisis: call/text 988 (Suicide & Crisis Lifeline)")
        ELSE Triage("general", "Call 211 for local resources")

ai_triage(user_input) ==
    LET text == strip(lower(OrEmpty(user_input)))
    IN  IF AnyIn(K_emergency, text) THEN Triage("emergency", "Emergency: call 911")
        ELSE IF AnyIn(K_mental_crisis, text)
             THEN Triage("mental_crisis", "Crisis: call/text 988 (Suicide & Crisis Lifeline)")
        ELSE IF AnyIn(K_medical, text) THEN Triage("medical", "Visit Harbor Free Clinic")
        ELSE IF AnyIn(K_housing, text)
             THEN Triage("housing", "Apply to Lake Union Women's Shelter")
        ELSE IF AnyIn(K_id, text) THEN Triage("id", "Seattle ID Assistance Center")
        ELSE IF AnyIn(K_food, text) THEN Triage("food", "Pike Place Food Bank")
        ELSE IF AnyIn(K_detox, text)
             THEN Triage("detox", "Call First Step Detox for intake")
        ELSE IF AnyIn(K_mental_health, text)
             THEN Triage("mental_health", "Start at Harbor Free Clinic for referral")
        ELSE Triage("general", "Call 211 for local resources")

\* ---- the messages ai_triage is applied to ----
Range(s) == {s[i] : i \in DOMAIN s}
TriageKeywords ==
    Range(K_emergency) \cup Range(K_mental_crisis) \cup Range(K_medical)
    \cup Range(K_housing) \cup Range(K_id) \cup Range(K_food) \cup Range(K_detox)
    \cup Range(K_mental_health)
\* the eight tests of the chain in source order: the keywords and the category returned
TriageGroups ==
    << [keys |-> K_emergency, category |-> "emergency"],
       [keys |-> K_mental_crisis, category |-> "mental_crisis"],
       [keys |-> K_medical, category |-> "medical"],
       [keys |-> K_housing, category |-> "housing"],
       [keys |-> K_id, category |-> "id"],
       [keys |-> K_food, category |-> "food"],
       [keys |-> K_detox, category |-> "detox"],
       [keys |-> K_mental_health, category |-> "mental_health"] >>
\* words with no keyword in them, and keywords in other letter cases
TriageFillers ==
    { <<>>, <<"s","o","m","e","t","h","i","n","g"," ","e","l","s","e">>, <<"O","v","e","r","d","o","s","e">>, <<"S","U","I","C","I","D","E">>, <<"K","i","l","l"," ","M","y","s","e","l","f">>, <<"T","H","R","E","A","T">> }
TriageLead == { <<>>, <<" ","I"," ","h","a","v","e"," ","a"," ">> }
TriageJoin == { <<" ">>, <<","," ","n","e","e","d"," ">> }
TriageTail == { <<>>, <<" ","n","o","w"," "," ">> }
TriageMessages ==
    { None } \cup TriageKeywords \cup TriageFillers \cup
    { a \o x \o j \o y \o z :
        a \in TriageLead, x \in TriageKeywords \cup TriageFillers, j \in TriageJoin,
        y \in TriageKeywords \cup TriageFillers, z \in TriageTail }

TriageInit ==
    /\ triage_input \in TriageMessages
    /\ triage_result = <<>>
TriageIdle ==
    /\ triage_input = None
    /\ triage_result = <<>>

\* result = ai_triage(user_input)
TriageCall ==
    /\ triage_result = <<>>
    /\ triage_result' = <<ai_triage(triage_input)>>
    /\ UNCHANGED <<triage_input, searchVars, loadVars, appVars, rateVars, threadVars>>

(***************************************************************************)
(* _expand (src/app.py 235-249)                                            *)
(***************************************************************************)
SYNONYMS ==
    << [key |-> <<"i","d">>,
        syns |-> << <<"i","d">>, <<"i","d","s">>, <<"i","d","e","n","t","i","f","i","c","a","t","i","o","n">>, <<"l","i","c","e","n","s","e">>, <<"d","m","v">>,
                    <<"b","i","r","t","h"," ","c","e","r","t","i","f","i","c","a","t","e">> >>],
       [key |-> <<"s","h","o","w","e","r","s">>,
        syns |-> << <<"s","h","o","w","e","r">>, <<"s","h","o","w","e","r","s">>, <<"h","y","g","i","e","n","e">>, <<"l","a","u","n","d","r","y">> >>],
       [key |-> <<"f","o","o","d">>,
        syns |-> << <<"f","o","o","d">>, <<"m","e","a","l">>, <<"m","e","a","l","s">>, <<"g","r","o","c","e","r","i","e","s">>, <<"f","o","o","d"," ","b","a","n","k">>,
                    <<"s","o","u","p">> >>],
       [key |-> <<"t","r","a","n","s","p","o","r","t">>,
        syns |-> << <<"t","r","a","n","s","p","o","r","t">>, <<"t","r","a","n","s","p","o","r","t","a","t","i","o","n">>, <<"b","u","s">>, <<"o","r","c","a">>, <<"t","r","a","n","s","i","t">>,
                    <<"t","i","c","k","e","t">>, <<"p","a","s","s">> >>],
       [key |-> <<"d","e","t","o","x">>,
        syns |-> << <<"d","e","t","o","x">>, <<"w","i","t","h","d","r","a","w","a","l">>, <<"s","o","b","e","r","i","n","g">>, <<"s","o","b","e","r","i","n","g"," ","c","e","n","t","e","r">> >>],
       [key |-> <<"m","e","n","t","a","l">>,
        syns |-> << <<"m","e","n","t","a","l">>, <<"c","o","u","n","s","e","l","i","n","g">>, <<"t","h","e","r","a","p","y">>, <<"p","s","y","c","h","i","a","t","r","y">>,
                    <<"b","e","h","a","v","i","o","r","a","l">> >>] >>

\* a triggered group replaces the query instead of being added to it
_expand_replacing(q) ==
    LET s == lower(strip(OrEmpty(q)))
        hit == {i \in DOMAIN SYNONYMS :
                   Contains(s, SYNONYMS[i].key) \/ AnyIn(SYNONYMS[i].syns, s)}
    IN  IF s = <<>> THEN {}
        ELSE IF hit = {} THEN {s}
        ELSE UNION {Range(SYNONYMS[i].syns) : i \in hit}

_expand(q) ==
    LET s == lower(strip(OrEmpty(q)))
        hit == {i \in DOMAIN SYNONYMS :
                   Contains(s, SYNONYMS[i].key) \/ AnyIn(SYNONYMS[i].syns, s)}
    IN  IF s = <<>> THEN {}
        ELSE {s} \cup UNION {Range(SYNONYMS[i].syns) : i \in hit}

\* ---- the queries _expand is applied to ----
ExpandWords ==
    UNION {Range(SYNONYMS[i].syns) \cup {SYNONYMS[i].key} : i \in DOMAIN SYNONYMS}
    \cup { <<>>, <<"z","z","z">>, <<"I","D">>, <<"F","o","o","d"," ","B","a","n","k">>, <<"B","u","s">> }
ExpandLead == { <<>>, <<" ">>, <<"n","e","e","d"," ">> }
ExpandTail == { <<>>, <<" ">> }
ExpandQueries ==
    { None } \cup
    { a \o x \o j \o y \o z :
        a \in ExpandLead, x \in ExpandWords, j \in {<<>>, <<" ">>}, y \in ExpandWords,
        z \in ExpandTail }

ExpandInit ==
    /\ expand_q \in ExpandQueries
    /\ expand_terms = <<>>
ExpandIdle ==
    /\ expand_q = None
    /\ expand_terms = <<>>

\* qterms = _expand(q)
ExpandCall ==
    /\ expand_terms = <<>>
    /\ expand_terms' = <<_expand(expand_q)>>
    /\ UNCHANGED <<expand_q, DATA_CACHE, fetch_args, fetch_result, triageVars, loadVars, appVars, rateVars, threadVars>>

(***************************************************************************)
(* fetch_services (src/app.py 251-278)                                     *)
(***************************************************************************)
\* a request flag: the route passes True or None, `is True` tells them apart
FlagValues == {"None", "True", "False"}

\* the value of a run of decimal digits
RECURSIVE DigitsValue(_)
DigitsValue(d) ==
    IF d = <<>> THEN 0
    ELSE 10 * DigitsValue(SubSeq(d, 1, Len(d) - 1))
         + ((CHOOSE i \in DOMAIN DIGITS : DIGITS[i] = d[Len(d)]) - 1)

\* int() on text without surrounding whitespace: one sign allowed, then digits only
IntOfStripped(t) ==
    LET neg  == t # <<>> /\ t[1] = "-"
        body == IF t # <<>> /\ t[1] \in {"-", "+"} THEN SubSeq(t, 2, Len(t)) ELSE t
    IN  IF body # <<>> /\ \A i \in DOMAIN body : body[i] \in Range(DIGITS)
        THEN [ok |-> TRUE, val |-> IF neg THEN 0 - DigitsValue(body) ELSE DigitsValue(body)]
        ELSE [ok |-> FALSE, val |-> 0]

\* int(x) for a str: surrounding whitespace and one sign allowed, then digits only;
\* anything else raises ValueError (ok = FALSE)
int_of_str(x) == IntOfStripped(strip(x))

\* " ".join(parts)
RECURSIVE JoinSpace(_)
JoinSpace(parts) ==
    IF parts = <<>> THEN <<>>
    ELSE IF Len(parts) = 1 THEN parts[1]
    ELSE parts[1] \o <<" ">> \o JoinSpace(Tail(parts))

\* hay: the lowercased text the free-text terms are looked up in
Hay(item) ==
    lower(JoinSpace(<<item.name, item.notes, item.type, item.neighborhood>> \o item.services))

\* the tests of ok(item) that come before the age test
OkBeforeAge(item, a) ==
    /\ ~(a.kind \notin {None, <<>>} /\ lower(item.type) # lower(a.kind))
    /\ ~(a.neighborhood \notin {None, <<>>}
         /\ lower(item.neighborhood) # lower(a.neighborhood))
    /\ ~(a.walk_in_only = "True" /\ ~item.walk_in)

\* the age test: "skip" (no age, or int(age) raised), "fail" or "pass"
AgeTest(item, a) ==
    IF a.age \in {None, <<>>} THEN "skip"
    ELSE LET n == int_of_str(a.age)
         IN  IF ~n.ok THEN "skip"
             ELSE IF ~(n.val >= item.age_min /\ (item.age_max = 0 \/ n.val <= item.age_max))
                  THEN "fail"
             ELSE "pass"

\* item.setdefault("_minor_note", True) is reached
SetsMinorNote(item, a) ==
    /\ OkBeforeAge(item, a)
    /\ AgeTest(item, a) = "pass"
    /\ int_of_str(a.age).val < 18

\* the tests of ok(item) that come after the age test
OkAfterAge(item, a, qterms) ==
    /\ ~(a.lgbtq = "True" /\ ~item.lgbtq_friendly)
    /\ ~(a.tribal = "True" /\ ~item.tribal_friendly)
    /\ ~(a.tribe_run = "True" /\ ~item.tribe_run)
    /\ ~(a.language \notin {None, <<>>}
         /\ lower(a.language) \notin {lower(item.languages[i]) : i \in DOMAIN item.languages})
    /\ ~(a.disability \notin {None, <<>>}
         /\ lower(a.disability) \notin
                {lower(item.disability_access[i]) : i \in DOMAIN item.disability_access})
    /\ ~(qterms # {} /\ ~\E t \in qterms : Contains(Hay(item), t))

\* ok(item) with the tribe_run test reading tribal_friendly
ok_tribe_run_slip(item, a, qterms) ==
    /\ OkBeforeAge(item, a)
    /\ AgeTest(item, a) # "fail"
    /\ OkAfterAge([item EXCEPT !.tribe_run = item.tribal_friendly], a, qterms)

\* ok(item): whether the record is returned
ok(item, a, qterms) ==
    /\ OkBeforeAge(item, a)
    /\ AgeTest(item, a) # "fail"
    /\ OkAfterAge(item, a, qterms)

\* [x for x in items if ...], as the indices kept, in list order
RECURSIVE Comprehension(_, _)
Comprehension(n, keep) ==
    IF n = 0 THEN <<>>
    ELSE Comprehension(n - 1, keep) \o (IF n \in keep THEN <<n>> ELSE <<>>)

\* fetch_services(**a): the returned list and the catalog as ok() leaves it
fetch_services(items, a) ==
    LET qterms == _expand(a.q)
    IN  [result |-> Comprehension(Len(items),
                       {i \in DOMAIN items : ok(items[i], a, qterms)}),
         items  |-> [i \in DOMAIN items |->
                       IF SetsMinorNote(items[i], a)
                       THEN [items[i] EXCEPT !._minor_note = TRUE]
                       ELSE items[i]]]

\* ---- the catalog the queries run on: four records as load_csv_bytes builds them ----
Service(name, type, hood, notes, walk, amin, amax, lgbtq, langs, dis, tribal, trun) ==
    [name |-> name, type |-> type, neighborhood |-> hood, notes |-> notes,
     walk_in |-> walk, age_min |-> amin, age_max |-> amax, lgbtq_friendly |-> lgbtq,
     languages |-> langs, disability_access |-> dis, tribal_friendly |-> tribal,
     tribe_run |-> trun, services |-> <<lower(type)>>, _minor_note |-> FALSE]

SearchCatalog ==
    << Service(<<"L","a","k","e"," ","S","h","e","l","t","e","r">>, <<"S","h","e","l","t","e","r">>, <<"D","o","w","n","t","o","w","n">>, <<"I","D"," ","p","r","e","f","e","r","r","e","d">>,
               TRUE, 18, 0, TRUE, <<<<"E","n","g","l","i","s","h">>>>, <<<<"W","h","e","e","l","c","h","a","i","r">>>>, FALSE, FALSE),
       Service(<<"A","u","r","o","r","a"," ","D","a","y"," ","C","e","n","t","e","r">>, <<"D","a","y"," ","C","e","n","t","e","r">>, <<"N","o","r","t","h"," ","S","e","a","t","t","l","e">>, <<"S","h","o","w","e","r","s",","," ","m","a","i","l">>,
               TRUE, 0, 0, FALSE, <<<<"E","n","g","l","i","s","h">>, <<"S","p","a","n","i","s","h">>>>,
               <<<<"W","h","e","e","l","c","h","a","i","r">>, <<"A","S","L">>>>, FALSE, FALSE),
       Service(<<"H","a","r","b","o","r"," ","C","l","i","n","i","c">>, <<"C","l","i","n","i","c">>, <<"C","a","p","i","t","o","l"," ","H","i","l","l">>, <<"n","a","l","o","x","o","n","e">>,
               FALSE, 0, 0, TRUE, <<<<"E","n","g","l","i","s","h">>, <<"S","p","a","n","i","s","h">>>>, <<>>, TRUE, FALSE),
       Service(<<"Y","o","u","t","h"," ","H","a","v","e","n">>, <<"S","h","e","l","t","e","r">>, <<"D","o","w","n","t","o","w","n">>, <<"h","o","t"," ","m","e","a","l","s">>,
               FALSE, 13, 24, TRUE, <<<<"S","p","a","n","i","s","h">>>>, <<<<"A","S","L">>>>, TRUE, TRUE) >>

\* ---- the filter arguments ----
FetchArgs ==
    [ q            : {None, <<>>, <<" "," ">>, <<"I","D">>, <<"l","a","u","n","d","r","y">>, <<"z","z","z">>},
      kind         : {None, <<"s","h","e","l","t","e","r">>, <<"C","L","I","N","I","C">>},
      neighborhood : {None, <<"d","o","w","n","t","o","w","n">>, <<"B","a","l","l","a","r","d">>},
      walk_in_only : FlagValues,
      age          : {None, <<>>, <<"a","b","c">>, <<"1","2">>, <<"1","7">>, <<"3","0">>},
      lgbtq        : {"None", "True"},
      language     : {None, <<"S","P","A","N","I","S","H">>, <<"e","n","g","l","i","s","h">>},
      disability   : {None, <<"a","s","l">>},
      tribal       : {"None", "True"},
      tribe_run    : {"None", "True"} ]

FetchInit ==
    /\ DATA_CACHE = [items |-> SearchCatalog, source |-> "csv"]
    /\ fetch_args \in {<<a>> : a \in FetchArgs}
    /\ fetch_result = <<>>

\* data = fetch_services(...) on the pending arguments
FetchCall ==
    /\ fetch_args # <<>>
    /\ fetch_result = <<>>
    /\ LET r == fetch_services(DATA_CACHE.items, fetch_args[1])
       IN  /\ fetch_result' = <<r.result>>
           /\ DATA_CACHE' = [DATA_CACHE EXCEPT !.items = r.items]
    /\ UNCHANGED <<fetch_args, expand_q, expand_terms, triageVars, loadVars, appVars, rateVars, threadVars>>

\* ---- one query after another on the same process ----
RequeryArgs ==
    [ q            : {None, <<"I","D">>},
      kind         : {None, <<"s","h","e","l","t","e","r">>},
      neighborhood : {None},
      walk_in_only : {"None"},
      age          : {None, <<"a","b","c">>, <<"1","2">>, <<"1","7">>, <<"3","0">>},
      lgbtq        : {"None", "True"},
      language     : {None},
      disability   : {None},
      tribal       : {"None"},
      tribe_run    : {"None"} ]

RequeryInit ==
    /\ DATA_CACHE = [items |-> SearchCatalog, source |-> "csv"]
    /\ fetch_args \in {<<a>> : a \in RequeryArgs}
    /\ fetch_result = <<>>

\* the next GET /services arrives once the previous one has been answered
NextQuery ==
    /\ fetch_result # <<>>
    /\ fetch_args' \in {<<a>> : a \in RequeryArgs}
    /\ fetch_result' = <<>>
    /\ UNCHANGED <<DATA_CACHE, expand_q, expand_terms, triageVars, loadVars, appVars, rateVars, threadVars>>

(***************************************************************************)
(* slugify, load_csv_bytes, try_load_data (src/app.py 82-88, 99-168)       *)
(***************************************************************************)
\* U+2019, the right single quotation mark, as one character
RSQUO == "U+2019"

\* s.replace("&","and").replace("/","-").replace(RSQUO,"").replace("'","")
RECURSIVE SlugReplace(_)
SlugReplace(s) ==
    IF s = <<>> THEN <<>>
    ELSE (CASE s[1] = "&" -> <<"a","n","d">>
            [] s[1] = "/" -> <<"-">>
            [] s[1] \in {RSQUO, "'"} -> <<>>
            [] OTHER -> <<s[1]>>) \o SlugReplace(Tail(s))

\* "-".join(p for p in s.split() if p): runs of whitespace become one hyphen
RECURSIVE HyphenJoin(_)
HyphenJoin(s) ==
    LET t == strip(s)
    IN  IF t = <<>> THEN <<>>
        ELSE IF \A i \in DOMAIN t : t[i] \notin WHITESPACE THEN t
        ELSE LET cut == CHOOSE i \in DOMAIN t :
                            t[i] \in WHITESPACE /\ \A j \in 1..(i - 1) : t[j] \notin WHITESPACE
             IN  SubSeq(t, 1, cut - 1) \o <<"-">> \o HyphenJoin(SubSeq(t, cut + 1, Len(t)))

SLUG_ALLOW == Range(LOWERCASE) \cup Range(DIGITS) \cup {"-"}

\* str.strip("-")
StripHyphens(s) ==
    LET keep == {i \in 1..Len(s) : s[i] # "-"}
    IN  IF keep = {} THEN <<>>
        ELSE SubSeq(s, CHOOSE i \in keep : \A j \in keep : i <= j,
                       CHOOSE i \in keep : \A j \in keep : j <= i)

slugify(name) ==
    LET s1 == HyphenJoin(SlugReplace(lower(strip(OrEmpty(name)))))
        s2 == StripHyphens(SelectSeq(s1, LAMBDA ch : ch \in SLUG_ALLOW))
    IN  IF s2 = <<>> THEN <<"s","e","r","v","i","c","e">> ELSE s2

\* the position of the first character of s that is in chars, 0 when there is none
IndexOf(s, chars) ==
    IF \E i \in DOMAIN s : s[i] \in chars
    THEN CHOOSE i \in DOMAIN s : s[i] \in chars /\ \A j \in 1..(i - 1) : s[j] \notin chars
    ELSE 0

\* a float as mantissa and decimal exponent, m not divisible by 10 (zero is m = 0, e = 0);
\* special names inf and nan
RECURSIVE FloatValue(_, _)
FloatValue(m, e) ==
    IF m = 0 THEN [m |-> 0, e |-> 0, special |-> ""]
    ELSE IF m % 10 = 0 THEN FloatValue(m \div 10, e + 1)
    ELSE [m |-> m, e |-> e, special |-> ""]
\* float(0)
FloatZero == FloatValue(0, 0)

\* a run of decimal digits, possibly empty
AllDigits(d) == \A i \in DOMAIN d : d[i] \in Range(DIGITS)

\* the digits before and after the point, and the exponent as int() read it
FloatOfDigits(neg, whole, frac, expo, ev) ==
    IF ~(AllDigits(whole) /\ AllDigits(frac) /\ whole \o frac # <<>>)
    THEN [ok |-> FALSE, val |-> FloatZero]
    ELSE IF ~(ev.ok /\ expo = strip(expo)) THEN [ok |-> FALSE, val |-> FloatZero]
    ELSE [ok |-> TRUE,
          val |-> FloatValue(IF neg THEN 0 - DigitsValue(whole \o frac)
                             ELSE DigitsValue(whole \o frac),
                             ev.val - Len(frac))]

\* the mantissa split at its point, at position ppos (0: no point)
FloatOfMantissa(neg, mant, expo, ppos) ==
    FloatOfDigits(neg,
                  IF ppos = 0 THEN mant ELSE SubSeq(mant, 1, ppos - 1),
                  IF ppos = 0 THEN <<>> ELSE SubSeq(mant, ppos + 1, Len(mant)),
                  expo, int_of_str(expo))

\* the unsigned text split at its exponent mark, at position epos (0: no exponent)
FloatOfSplit(neg, body, epos) ==
    FloatOfMantissa(neg,
                    IF epos = 0 THEN body ELSE SubSeq(body, 1, epos - 1),
                    IF epos = 0 THEN <<"0">> ELSE SubSeq(body, epos + 1, Len(body)),
                    IndexOf(IF epos = 0 THEN body ELSE SubSeq(body, 1, epos - 1), {"."}))

\* the text after its sign
FloatOfBody(neg, body) ==
    IF lower(body) \in {<<"i","n","f">>, <<"i","n","f","i","n","i","t","y">>}
    THEN [ok |-> TRUE, val |-> [m |-> IF neg THEN 0 - 1 ELSE 1, e |-> 0, special |-> "inf"]]
    ELSE IF lower(body) = <<"n","a","n">>
    THEN [ok |-> TRUE, val |-> [m |-> 0, e |-> 0, special |-> "nan"]]
    ELSE FloatOfSplit(neg, body, IndexOf(body, {"e", "E"}))

\* float() on text without surrounding whitespace
FloatOfStripped(t) ==
    FloatOfBody(t # <<>> /\ t[1] = "-",
                IF t # <<>> /\ t[1] \in {"-", "+"} THEN SubSeq(t, 2, Len(t)) ELSE t)

\* float(x) for a str: surrounding whitespace and one sign allowed, then inf, infinity
\* or nan in any case, or digits with at most one point and an optional exponent;
\* anything else raises ValueError (ok = FALSE)
float_of_str(x) == FloatOfStripped(strip(x))

\* one row of the CSV, as csv.DictReader hands it over: the columns' raw text
CsvRecord(name, beds, lat, lng, age_min, age_max) ==
    [name |-> name, beds |-> beds, lat |-> lat, lng |-> lng,
     age_min |-> age_min, age_max |-> age_max]
\* a row whose lat, lng, age_min and age_max cells are empty
CsvRow(name, beds) == CsvRecord(name, beds, <<>>, <<>>, <<>>, <<>>)

\* `int(row.get(col,"0") or 0)`: an empty cell is int(0)
IntCell(text) == IF text = <<>> THEN [ok |-> TRUE, val |-> 0] ELSE int_of_str(text)
\* `float(row.get(col,"0") or 0)`: an empty cell is float(0)
FloatCell(text) == IF text = <<>> THEN [ok |-> TRUE, val |-> FloatZero] ELSE float_of_str(text)

\* the loop body with `except ValueError: use 0` around each conversion
LoadRow_zero_fallback(row) ==
    LET name == strip(row.name)
    IN  IF name = <<>> THEN <<>>
        ELSE << [name |-> name, beds |-> IntCell(row.beds).val,
                 lat |-> FloatCell(row.lat).val, lng |-> FloatCell(row.lng).val,
                 age_min |-> IntCell(row.age_min).val, age_max |-> IntCell(row.age_max).val,
                 slug |-> slugify(name)] >>

\* the body of the `for row in rdr` loop: <<item>>, or <<>> when the row is skipped
\* (int() or float() raised inside the try, or the row has no name)
LoadRow(row) ==
    LET beds    == IntCell(row.beds)
        lat     == FloatCell(row.lat)
        lng     == FloatCell(row.lng)
        age_min == IntCell(row.age_min)
        age_max == IntCell(row.age_max)
        name    == strip(row.name)
    IN  IF ~beds.ok \/ ~lat.ok \/ ~lng.ok \/ ~age_min.ok \/ ~age_max.ok THEN <<>>
        ELSE IF name = <<>> THEN <<>>
        ELSE << [name |-> name, beds |-> beds.val, lat |-> lat.val, lng |-> lng.val,
                 age_min |-> age_min.val, age_max |-> age_max.val,
                 slug |-> slugify(name)] >>

RECURSIVE LoadRows(_)
LoadRows(rows) ==
    IF rows = <<>> THEN <<>> ELSE LoadRow(rows[1]) \o LoadRows(Tail(rows))

\* load_csv_bytes(csv_bytes): decode("utf-8") raises on bytes that are not UTF-8,
\* outside the per-row try
load_csv_bytes(csv_bytes) ==
    IF ~csv_bytes.utf8 THEN [raised |-> TRUE, items |-> <<>>]
    ELSE [raised |-> FALSE, items |-> LoadRows(csv_bytes.rows)]

\* the hard-coded records of the last resort
FALLBACK_ITEMS ==
    << [name |-> <<"L","a","k","e"," ","U","n","i","o","n"," ","W","o","m","e","n","'","s"," ","S","h","e","l","t","e","r">>, beds |-> 3,
        slug |-> <<"l","a","k","e","-","u","n","i","o","n","-","w","o","m","e","n","s","-","s","h","e","l","t","e","r">>],
       [name |-> <<"A","u","r","o","r","a"," ","D","a","y"," ","C","e","n","t","e","r">>, slug |-> <<"a","u","r","o","r","a","-","d","a","y","-","c","e","n","t","e","r">>],
       [name |-> <<"H","a","r","b","o","r"," ","F","r","e","e"," ","C","l","i","n","i","c">>, slug |-> <<"h","a","r","b","o","r","-","f","r","e","e","-","c","l","i","n","i","c">>] >>

\* `for it in items: it.setdefault("slug", slugify(it.get("name","")))`
SetDefaultSlug(it) ==
    IF "slug" \in DOMAIN it THEN it
    ELSE [k \in DOMAIN it \cup {"slug"} |->
             IF k = "slug" THEN slugify(IF "name" \in DOMAIN it THEN it.name ELSE <<>>)
             ELSE it[k]]

\* the sheet step (lines 141-147): every failure is caught
SheetStep(sheet) ==
    IF sheet.url_set /\ sheet.fetch = "ok" /\ ~sheet.blank
       /\ ~load_csv_bytes(sheet.content).raised
    THEN [items |-> load_csv_bytes(sheet.content).items, src |-> "sheet"]
    ELSE [items |-> <<>>, src |-> ""]

\* try_load_data(): [raised, items, source]; raised means an exception left the
\* function, which is called at import (line 168)
try_load_data(srcs) ==
    LET Raise == [raised |-> TRUE, items |-> <<>>, source |-> ""]
        s1 == SheetStep(srcs.sheet)
        c  == load_csv_bytes(srcs.csv.content)
        j  == srcs.json
        JsonStep(prev) ==
            IF prev.items # <<>> \/ ~j.exists THEN [raised |-> FALSE, st |-> prev]
            ELSE IF ~j.readable \/ j.value.kind = "malformed" THEN [raised |-> TRUE, st |-> prev]
            \* iterating a dict yields its keys, and a str has no setdefault
            ELSE IF j.value.kind = "object"
                 THEN [raised |-> ~j.value.empty, st |-> [items |-> <<>>, src |-> "json"]]
            ELSE IF j.value.kind = "null"
                 THEN [raised |-> TRUE, st |-> prev]
            ELSE IF \E i \in DOMAIN j.value.items : j.value.items[i].kind # "dict"
                 THEN [raised |-> TRUE, st |-> prev]
            ELSE [raised |-> FALSE,
                  st |-> [items |-> [i \in DOMAIN j.value.items |->
                                        SetDefaultSlug(j.value.items[i].fields)],
                          src |-> "json"]]
        Finish(st) ==
            IF st.items = <<>>
            THEN [raised |-> FALSE, items |-> FALLBACK_ITEMS, source |-> "fallback"]
            ELSE [raised |-> FALSE, items |-> st.items, source |-> st.src]
    IN  IF s1.items = <<>> /\ srcs.csv.exists /\ (~srcs.csv.readable \/ c.raised) THEN Raise
        ELSE LET s2 == IF s1.items = <<>> /\ srcs.csv.exists
                       THEN [items |-> c.items, src |-> "csv"] ELSE s1
                 r3 == JsonStep(s2)
             IN  IF r3.raised THEN Raise ELSE Finish(r3.st)

\* ---- the states of the three sources ----
MaxRows == 2
CsvRows ==
    { CsvRow(<<"L","a","k","e"," ","S","h","e","l","t","e","r">>, <<"3">>), CsvRow(<<"H","a","r","b","o","r"," ","&"," ","V","a","l","e">>, <<>>),
      CsvRow(<<" "," ">>, <<"3">>), CsvRow(<<"D","a","y"," ","C","e","n","t","e","r">>, <<"n","/","a">>) }
RowSeqs == UNION { [1..n -> CsvRows] : n \in 0..MaxRows }
\* file contents: bytes that are not UTF-8, or text with the rows it holds
CsvContents == { [utf8 |-> FALSE, rows |-> <<>>] } \cup { [utf8 |-> TRUE, rows |-> r] : r \in RowSeqs }
NoContent == [utf8 |-> TRUE, rows |-> <<>>]
SheetStates ==
    { [url_set |-> FALSE, fetch |-> "none", blank |-> TRUE, content |-> NoContent],
      [url_set |-> TRUE, fetch |-> "raises", blank |-> TRUE, content |-> NoContent],
      [url_set |-> TRUE, fetch |-> "not_ok", blank |-> FALSE, content |-> NoContent],
      [url_set |-> TRUE, fetch |-> "ok", blank |-> TRUE, content |-> NoContent] }
    \cup { [url_set |-> TRUE, fetch |-> "ok", blank |-> FALSE, content |-> c] :
             c \in { [utf8 |-> FALSE, rows |-> <<>>],
                     [utf8 |-> TRUE, rows |-> <<>>],
                     [utf8 |-> TRUE, rows |-> <<CsvRow(<<"D","a","y"," ","C","e","n","t","e","r">>, <<"n","/","a">>)>>],
                     [utf8 |-> TRUE, rows |-> <<CsvRow(<<"S","h","e","e","t"," ","C","l","i","n","i","c">>, <<"0">>)>>] } }
CsvStates ==
    { [exists |-> FALSE, readable |-> FALSE, content |-> NoContent],
      [exists |-> TRUE, readable |-> FALSE, content |-> NoContent] }
    \cup { [exists |-> TRUE, readable |-> TRUE, content |-> c] : c \in CsvContents }
JsonDict(fields) == [kind |-> "dict", fields |-> fields]
JsonValues ==
    { [kind |-> "malformed"], [kind |-> "null"],
      [kind |-> "object", empty |-> TRUE], [kind |-> "object", empty |-> FALSE],
      [kind |-> "list", items |-> <<>>],
      [kind |-> "list", items |-> << [kind |-> "str"] >>],
      [kind |-> "list", items |-> << JsonDict([name |-> <<"J","s","o","n"," ","C","l","i","n","i","c">>]) >>],
      [kind |-> "list", items |-> << JsonDict([name |-> <<"J","s","o","n"," ","C","l","i","n","i","c">>, slug |-> <<"j","c">>]),
                                     JsonDict([type |-> <<"S","h","e","l","t","e","r">>]) >>] }
JsonStates ==
    { [exists |-> FALSE, readable |-> FALSE, value |-> [kind |-> "null"]],
      [exists |-> TRUE, readable |-> FALSE, value |-> [kind |-> "null"]] }
    \cup { [exists |-> TRUE, readable |-> TRUE, value |-> v] : v \in JsonValues }

LoadInit ==
    /\ sources \in [sheet : SheetStates, csv : CsvStates, json : JsonStates]
    /\ load_status = "pending"
    /\ DATA_CACHE = [items |-> <<>>, source |-> ""]
\* ---- services.csv alone: one row with every numeric column drawn from the texts
\* below, alone or followed by a plain row ----
IntTexts == { <<>>, <<"3">>, <<" ","1","8"," ">>, <<"n","/","a">>, <<"1","2",".","5">> }
FloatTexts == { <<>>, <<"4","7",".","6">>, <<"-","1","2","2",".","3","0">>, <<"n","/","a">>, <<"1","e","2">> }
NumericRows ==
    { CsvRecord(name, beds, lat, lng, age_min, age_max) :
        name \in {<<"L","a","k","e"," ","S","h","e","l","t","e","r">>, <<" "," ">>}, beds \in IntTexts, lat \in FloatTexts,
        lng \in FloatTexts, age_min \in IntTexts, age_max \in IntTexts }
PlainRow == CsvRow(<<"H","a","r","b","o","r"," ","&"," ","V","a","l","e">>, <<>>)
CsvOnlyInit ==
    /\ \E r \in NumericRows : \E rows \in {<<r>>, <<r, PlainRow>>} :
         sources = [sheet |-> [url_set |-> FALSE, fetch |-> "none", blank |-> TRUE,
                               content |-> NoContent],
                    csv |-> [exists |-> TRUE, readable |-> TRUE,
                             content |-> [utf8 |-> TRUE, rows |-> rows]],
                    json |-> [exists |-> FALSE, readable |-> FALSE,
                              value |-> [kind |-> "null"]]]
    /\ load_status = "pending"
    /\ DATA_CACHE = [items |-> <<>>, source |-> ""]

LoadIdle ==
    /\ sources = [sheet |-> [url_set |-> FALSE, fetch |-> "none", blank |-> TRUE,
                             content |-> NoContent],
                  csv |-> [exists |-> FALSE, readable |-> FALSE, content |-> NoContent],
                  json |-> [exists |-> FALSE, readable |-> FALSE, value |-> [kind |-> "null"]]]
    /\ load_status = "done"

\* line 168: try_load_data() at import
TryLoadData ==
    /\ load_status = "pending"
    /\ LET r == try_load_data(sources)
       IN  IF r.raised
           THEN /\ load_status' = "raised"
                /\ UNCHANGED DATA_CACHE
           ELSE /\ load_status' = "done"
                /\ DATA_CACHE' = [items |-> r.items, source |-> r.source]
    /\ UNCHANGED <<sources, expand_q, expand_terms, fetch_args, fetch_result, triageVars, appVars, rateVars, threadVars>>

(***************************************************************************)
(* The stores, sessions and handlers (src/app.py 39-44, 203-232, 332-388,  *)
(* 424-436).  The ts / t stamps of the records are wall-clock readings     *)
(* that no modelled handler reads; they are left out of the records.       *)
(***************************************************************************)
\* deque(maxlen=5000), deque(maxlen=1000), deque(maxlen=1000) in the source, scaled down
EVENTS_MAXLEN == 2
INTAKES_MAXLEN == 2
REPORTS_MAXLEN == 2
MaxRequests == 4

DASHBOARD_PASSWORD == "letmein"
\* DASHBOARD_RO_PASSWORD is "" unless the environment sets it; here it is set
DASHBOARD_RO_PASSWORD == "viewonly"

ALLOWED_EVENT_TYPES ==
    {"call_click", "website_click", "directions_click", "copy_address", "search", "filter",
     "triage", "intake_submitted", "intake_resolved", "login", "guided_start",
     "guided_complete", "lang_select", "contrast_toggle", "quick_exit", "report",
     "partner_visit", "profile_save", "goal_add", "upload"}

\* deque.appendleft(x) on a deque(maxlen=n): a full deque drops its right end
appendleft_keeping_all(d, x, maxlen) == <<x>> \o d

appendleft(d, x, maxlen) ==
    IF Len(d) >= maxlen THEN <<x>> \o SubSeq(d, 1, maxlen - 1) ELSE <<x>> \o d

\* log_event without the allow-list test
log_event_ungated(events, evt_type, name) ==
    appendleft(events, [type |-> evt_type, name |-> name], EVENTS_MAXLEN)

\* log_event(evt_type, name, meta): the new EVENTS
log_event(events, evt_type, name) ==
    IF evt_type \notin ALLOWED_EVENT_TYPES THEN events
    ELSE appendleft(events, [type |-> evt_type, name |-> name], EVENTS_MAXLEN)

\* str(n) for a non-negative int
RECURSIVE str_of_int(_)
str_of_int(n) ==
    IF n < 10 THEN <<DIGITS[n + 1]>>
    ELSE str_of_int(n \div 10) \o <<DIGITS[(n % 10) + 1]>>

\* session.get("role")
role(s) == session[s]

Clients == {"c1", "c2"}
IntakeRecord(iid, name, need) == [id |-> iid, name |-> name, need |-> need, status |-> "new"]
\* `name or "anonymous"`
OrAnonymous(name) == IF name = "" THEN "anonymous" ELSE name

AppInit ==
    /\ EVENTS = <<>>
    /\ INTAKES = <<>>
    /\ REPORTS = <<>>
    /\ _next_intake_id = 1
    /\ session = [c \in Clients |-> "None"]
    /\ req = [handler |-> "none"]
    /\ resp = [code |-> 0]
    /\ n_requests = 0

Handled == n_requests' = n_requests + 1
OtherVarsButThreads == <<triageVars, searchVars, loadVars, rateVars>>
OtherVars == <<OtherVarsButThreads, threadVars>>

\* POST /submit_form
submit_form ==
    /\ n_requests < MaxRequests
    /\ \E c \in Clients, name \in {"", "Ann"} :
        /\ req' = [handler |-> "submit_form", client |-> c, role |-> role(c), name |-> name]
        /\ _next_intake_id' = _next_intake_id + 1
        /\ INTAKES' = appendleft(INTAKES, IntakeRecord(_next_intake_id, name, "housing"),
                                 INTAKES_MAXLEN)
        /\ EVENTS' = log_event(EVENTS, "intake_submitted", OrAnonymous(name))
        /\ resp' = [code |-> 200, id |-> _next_intake_id]
    /\ Handled
    /\ UNCHANGED <<REPORTS, session, OtherVars>>

\* POST /refer
refer ==
    /\ n_requests < MaxRequests
    /\ \E c \in Clients :
        /\ req' = [handler |-> "refer", client |-> c, role |-> role(c), name |-> "Bo"]
        /\ _next_intake_id' = _next_intake_id + 1
        /\ INTAKES' = appendleft(INTAKES,
                                 IntakeRecord(_next_intake_id, "Bo", "Referral to: Harbor Clinic"),
                                 INTAKES_MAXLEN)
        /\ EVENTS' = log_event(EVENTS, "intake_submitted", "Bo")
        /\ resp' = [code |-> 200, id |-> _next_intake_id]
    /\ Handled
    /\ UNCHANGED <<REPORTS, session, OtherVars>>

\* POST /report
report ==
    /\ n_requests < MaxRequests
    /\ \E c \in Clients :
        /\ req' = [handler |-> "report", client |-> c, role |-> role(c), name |-> ""]
        /\ REPORTS' = appendleft(REPORTS, [service |-> "Harbor Clinic", category |-> "hours"],
                                 REPORTS_MAXLEN)
        /\ _next_intake_id' = _next_intake_id + 1
        /\ INTAKES' = appendleft(INTAKES,
                                 IntakeRecord(_next_intake_id, "anonymous", "Report: hours"),
                                 INTAKES_MAXLEN)
        /\ EVENTS' = log_event(EVENTS, "report", "user")
        /\ resp' = [code |-> 200, id |-> _next_intake_id]
    /\ Handled
    /\ UNCHANGED <<session, OtherVars>>

\* POST /login
login ==
    /\ n_requests < MaxRequests
    /\ \E c \in Clients, pw \in {DASHBOARD_PASSWORD, DASHBOARD_RO_PASSWORD, ""} :
        /\ req' = [handler |-> "login", client |-> c, role |-> role(c), password |-> pw]
        /\ IF DASHBOARD_RO_PASSWORD # "" /\ pw = DASHBOARD_RO_PASSWORD
           THEN /\ session' = [session EXCEPT ![c] = "ro"]
                /\ EVENTS' = log_event(EVENTS, "login", "case_manager_ro")
                /\ resp' = [code |-> 302, location |-> "dashboard"]
           ELSE IF pw = DASHBOARD_PASSWORD
           THEN /\ session' = [session EXCEPT ![c] = "rw"]
                /\ EVENTS' = log_event(EVENTS, "login", "case_manager")
                /\ resp' = [code |-> 302, location |-> "dashboard"]
           ELSE /\ resp' = [code |-> 200, error |-> "Incorrect password."]
                /\ UNCHANGED <<session, EVENTS>>
    /\ Handled
    /\ UNCHANGED <<INTAKES, REPORTS, _next_intake_id, OtherVars>>

\* GET /logout
logout ==
    /\ n_requests < MaxRequests
    /\ \E c \in Clients :
        /\ req' = [handler |-> "logout", client |-> c, role |-> role(c)]
        /\ session' = [session EXCEPT ![c] = "None"]
        /\ resp' = [code |-> 302, location |-> "login"]
    /\ Handled
    /\ UNCHANGED <<EVENTS, INTAKES, REPORTS, _next_intake_id, OtherVars>>

\* the role test of the dashboard page, which lets a read-only session in
MayResolve_any_login(c) == role(c) \in {"ro", "rw"}

\* line 359: `if role()!="rw": abort(403)`
MayResolve(c) == role(c) = "rw"

\* `for it in INTAKES: if str(it.get("id")) == str(iid): ...; break`
ResolveLoop(intakes, iid) ==
    LET hits == {i \in DOMAIN intakes : str_of_int(intakes[i].id) = iid}
    IN  IF hits = {} THEN [found |-> FALSE, intakes |-> intakes]
        ELSE LET first == CHOOSE i \in hits : \A j \in hits : i <= j
             IN  [found |-> TRUE,
                  intakes |-> [intakes EXCEPT ![first].status = "resolved"]]

ResolveIds == { <<"1">>, <<"2">>, <<"0","1">> }

\* POST /intake/resolve
intake_resolve ==
    /\ n_requests < MaxRequests
    /\ \E c \in Clients, iid \in ResolveIds :
        /\ req' = [handler |-> "intake_resolve", client |-> c, role |-> role(c), id |-> iid]
        /\ IF ~MayResolve(c)
           THEN /\ resp' = [code |-> 403]
                /\ UNCHANGED <<INTAKES, EVENTS>>
           ELSE LET r == ResolveLoop(INTAKES, iid)
                IN  /\ INTAKES' = r.intakes
                    /\ EVENTS' = IF r.found
                                 THEN log_event(EVENTS, "intake_resolved", "case_manager")
                                 ELSE EVENTS
                    /\ resp' = [code |-> 302, location |-> "dashboard"]
    /\ Handled
    /\ UNCHANGED <<REPORTS, _next_intake_id, session, OtherVars>>

\* log_event called with any type at all
LogEventTypes == {"search", "call_click", "page_view", "LOGIN", ""}
log_event_call ==
    /\ n_requests < MaxRequests
    /\ \E t \in LogEventTypes :
        /\ req' = [handler |-> "log_event", type |-> t]
        /\ EVENTS' = log_event(EVENTS, t, "Harbor Clinic")
        /\ resp' = [code |-> 0]
    /\ Handled
    /\ UNCHANGED <<INTAKES, REPORTS, _next_intake_id, session, OtherVars>>

NextApp ==
    \/ submit_form
    \/ refer
    \/ report
    \/ login
    \/ logout
    \/ intake_resolve
    \/ log_event_call

(***************************************************************************)
(* check_rate (src/app.py 45-56), called from request threads              *)
(***************************************************************************)
MaxHits == 2
MaxWindow == 1
MaxTime == 2
MaxCalls == 4

Threads == {"t1", "t2"}
Ips == {"10.0.0.1", "10.0.0.2"}

RateInit ==
    /\ RATE = [ip \in Ips |-> <<>>]
    /\ RATE_LOCK = "free"
    /\ clock = 0
    /\ max_hits \in 1..MaxHits
    /\ window_sec \in 0..MaxWindow
    /\ pc = [t \in Threads |-> "idle"]
    /\ frame = [t \in Threads |-> [ip |-> "10.0.0.1", now |-> 0, found |-> <<>>]]
    /\ calls = [ip \in Ips |-> <<>>]
RateIdle ==
    /\ RATE = [ip \in Ips |-> <<>>]
    /\ RATE_LOCK = "free"
    /\ clock = 0
    /\ max_hits = 1
    /\ window_sec = 0
    /\ pc = [t \in Threads |-> "idle"]
    /\ frame = [t \in Threads |-> [ip |-> "10.0.0.1", now |-> 0, found |-> <<>>]]
    /\ calls = [ip \in Ips |-> <<>>]

RestVars == <<triageVars, searchVars, loadVars, appVars, threadVars>>
CallsMade ==
    Len(calls["10.0.0.1"]) + Len(calls["10.0.0.2"])
    + Cardinality({t \in Threads : pc[t] # "idle"})

\* time passes
Tick ==
    /\ clock < MaxTime
    /\ clock' = clock + 1
    /\ UNCHANGED <<RATE, RATE_LOCK, max_hits, window_sec, pc, frame, calls, RestVars>>

\* line 48: now = time.time()
ReadNow(t) ==
    /\ pc[t] = "idle"
    /\ CallsMade < MaxCalls
    /\ \E ip \in Ips : frame' = [frame EXCEPT ![t] = [ip |-> ip, now |-> clock, found |-> <<>>]]
    /\ pc' = [pc EXCEPT ![t] = "lock"]
    /\ UNCHANGED <<RATE, RATE_LOCK, clock, max_hits, window_sec, calls, RestVars>>

\* a lock that never makes a caller wait
CanAcquire_unlocked(t) == TRUE

\* `with RATE_LOCK:` lets t in only when no thread holds the lock
CanAcquire(t) == RATE_LOCK = "free"

\* line 49-50: acquire RATE_LOCK, look the bucket up
Acquire(t) ==
    /\ pc[t] = "lock"
    /\ CanAcquire(t)
    /\ RATE_LOCK' = t
    /\ frame' = [frame EXCEPT ![t].found = RATE[frame[t].ip]]
    /\ pc' = [pc EXCEPT ![t] = "prune"]
    /\ UNCHANGED <<RATE, clock, max_hits, window_sec, calls, RestVars>>

\* the loop test with >= in place of >
Expired_inclusive(bucket, now) == bucket # <<>> /\ now - bucket[1] >= window_sec

\* line 51: bucket and now - bucket[0] > window_sec
Expired(bucket, now) == bucket # <<>> /\ now - bucket[1] > window_sec

\* line 51-52: one turn of the while loop, or leaving it
Prune(t) ==
    /\ pc[t] = "prune"
    /\ LET ip == frame[t].ip
       IN  IF Expired(RATE[ip], frame[t].now)
           THEN /\ RATE' = [RATE EXCEPT ![ip] = Tail(RATE[ip])]
                /\ UNCHANGED pc
           ELSE /\ pc' = [pc EXCEPT ![t] = "check"]
                /\ UNCHANGED RATE
    /\ UNCHANGED <<RATE_LOCK, clock, max_hits, window_sec, frame, calls, RestVars>>

Returned(t, ret) ==
    [calls EXCEPT ![frame[t].ip] =
        Append(@, [now |-> frame[t].now, ret |-> ret, found |-> frame[t].found])]

\* line 53-54: a full bucket, return False (the with block releases the lock)
Reject(t) ==
    /\ pc[t] = "check"
    /\ Len(RATE[frame[t].ip]) >= max_hits
    /\ RATE_LOCK' = "free"
    /\ calls' = Returned(t, FALSE)
    /\ pc' = [pc EXCEPT ![t] = "idle"]
    /\ UNCHANGED <<RATE, clock, max_hits, window_sec, frame, RestVars>>

\* line 53: room in the bucket, go on to the append
Admit(t) ==
    /\ pc[t] = "check"
    /\ Len(RATE[frame[t].ip]) < max_hits
    /\ pc' = [pc EXCEPT ![t] = "append"]
    /\ UNCHANGED <<RATE, RATE_LOCK, clock, max_hits, window_sec, frame, calls, RestVars>>

\* line 55-56: bucket.append(now); return True (the with block releases the lock)
AppendNow(t) ==
    /\ pc[t] = "append"
    /\ RATE' = [RATE EXCEPT ![frame[t].ip] = Append(@, frame[t].now)]
    /\ RATE_LOCK' = "free"
    /\ calls' = Returned(t, TRUE)
    /\ pc' = [pc EXCEPT ![t] = "idle"]
    /\ UNCHANGED <<clock, max_hits, window_sec, frame, RestVars>>

check_rate(t) ==
    \/ ReadNow(t)
    \/ Acquire(t)
    \/ Prune(t)
    \/ Reject(t)
    \/ Admit(t)
    \/ AppendNow(t)

NextRate ==
    \/ Tick
    \/ \E t \in Threads : check_rate(t)

\* one request thread only: every call returns before the next is made
NextRateSeq ==
    \/ Tick
    \/ check_rate("t1")

(***************************************************************************)
(* submit_form, refer and report run by concurrent request threads         *)
(* (src/app.py 203-232, 367-388).  No lock is taken: a thread can be       *)
(* switched out between any two of the statements below, and               *)
(* `_next_intake_id["v"] += 1` is a read of the counter followed by a      *)
(* write of the value read plus one.                                       *)
(***************************************************************************)
IntakeHandlers == {"submit_form", "refer", "report"}
\* the name and need of the intake record each handler builds
IntakeName(h) ==
    IF h = "submit_form" THEN "Ann" ELSE IF h = "refer" THEN "Bo" ELSE "anonymous"
IntakeNeed(h) ==
    IF h = "submit_form" THEN "housing"
    ELSE IF h = "refer" THEN "Referral to: Harbor Clinic" ELSE "Report: hours"
\* the log_event call that ends each handler
IntakeEvent(h) ==
    IF h = "report" THEN [type |-> "report", name |-> "user"]
    ELSE [type |-> "intake_submitted", name |-> IntakeName(h)]

ThreadsInit ==
    /\ at = [t \in Threads |-> "idle"]
    /\ local = [t \in Threads |-> [handler |-> "none", iid |-> 0, v |-> 0]]

Goto(t, label) == at' = [at EXCEPT ![t] = label]

\* a request reaches one of the three handlers
BeginIntake(t) ==
    /\ at[t] = "idle"
    /\ n_requests < MaxRequests
    /\ \E h \in IntakeHandlers :
        /\ local' = [local EXCEPT ![t] = [handler |-> h, iid |-> 0, v |-> 0]]
        /\ req' = [handler |-> h, thread |-> t]
        /\ Goto(t, IF h = "report" THEN "reports_append" ELSE "read_id")
    /\ Handled
    /\ UNCHANGED <<EVENTS, INTAKES, REPORTS, _next_intake_id, session, resp, OtherVarsButThreads>>

\* report: REPORTS.appendleft({...})
ReportsAppend(t) ==
    /\ at[t] = "reports_append"
    /\ REPORTS' = appendleft(REPORTS, [service |-> "Harbor Clinic", category |-> "hours"],
                             REPORTS_MAXLEN)
    /\ Goto(t, "read_id")
    /\ UNCHANGED <<EVENTS, INTAKES, _next_intake_id, session, req, resp, n_requests, local,
                   OtherVarsButThreads>>

\* iid = _next_intake_id["v"]
ReadId(t) ==
    /\ at[t] = "read_id"
    /\ local' = [local EXCEPT ![t].iid = _next_intake_id]
    /\ Goto(t, "load_v")
    /\ UNCHANGED <<appVars, OtherVarsButThreads>>

\* _next_intake_id["v"] += 1, the read
LoadV(t) ==
    /\ at[t] = "load_v"
    /\ local' = [local EXCEPT ![t].v = _next_intake_id]
    /\ Goto(t, "store_v")
    /\ UNCHANGED <<appVars, OtherVarsButThreads>>

\* _next_intake_id["v"] += 1, the write
StoreV(t) ==
    /\ at[t] = "store_v"
    /\ _next_intake_id' = local[t].v + 1
    /\ Goto(t, "intakes_append")
    /\ UNCHANGED <<EVENTS, INTAKES, REPORTS, session, req, resp, n_requests, local,
                   OtherVarsButThreads>>

\* INTAKES.appendleft({"id": iid, ...})
IntakesAppend(t) ==
    /\ at[t] = "intakes_append"
    /\ INTAKES' = appendleft(INTAKES,
                             IntakeRecord(local[t].iid, IntakeName(local[t].handler),
                                          IntakeNeed(local[t].handler)),
                             INTAKES_MAXLEN)
    /\ Goto(t, "log_event")
    /\ UNCHANGED <<EVENTS, REPORTS, _next_intake_id, session, req, resp, n_requests, local,
                   OtherVarsButThreads>>

\* log_event(...); return jsonify({..., "id": iid})
LogAndReturn(t) ==
    /\ at[t] = "log_event"
    /\ LET e == IntakeEvent(local[t].handler)
       IN  EVENTS' = log_event(EVENTS, e.type, e.name)
    /\ resp' = [code |-> 200, id |-> local[t].iid, thread |-> t]
    /\ Goto(t, "idle")
    /\ UNCHANGED <<INTAKES, REPORTS, _next_intake_id, session, req, n_requests, local,
                   OtherVarsButThreads>>

NextIntake ==
    \E t \in Threads :
        \/ BeginIntake(t)
        \/ ReportsAppend(t)
        \/ ReadId(t)
        \/ LoadV(t)
        \/ StoreV(t)
        \/ IntakesAppend(t)
        \/ LogAndReturn(t)

\* no request is in a handler
ThreadsIdle == ThreadsInit

FetchIdle ==
    /\ fetch_args = <<>>
    /\ fetch_result = <<>>


NoCatalog == DATA_CACHE = [items |-> <<>>, source |-> ""]

InitTriage == TriageInit /\ ExpandIdle /\ FetchIdle /\ NoCatalog /\ LoadIdle /\ AppInit /\ RateIdle /\ ThreadsIdle
SpecTriage == InitTriage /\ [][TriageCall]_vars

\* C5: a message that contains an emergency keyword is classified 'emergency', and a
\* message that contains a suicide/self-harm keyword is classified 'emergency' or
\* 'mental_crisis', whatever else the message contains and wherever the keyword is.
C5_CrisisPreempts ==
    triage_result # <<>> =>
        LET raw == OrEmpty(triage_input)
        IN  /\ AnyIn(K_emergency, raw) => triage_result[1].category = "emergency"
            /\ AnyIn(K_mental_crisis, raw) =>
                   triage_result[1].category \in {"emergency", "mental_crisis"}

\* a classified message holding a crisis keyword after a non-crisis keyword
C5_Witness ==
    /\ triage_result # <<>>
    /\ triage_input = <<"h","o","u","s","i","n","g",","," ","n","e","e","d"," ","o","v","e","r","d","o","s","e">>
    /\ triage_result[1].category = "emergency"

\* a classified message holding a suicide keyword and a medical keyword
C5_WitnessSuicide ==
    /\ triage_result # <<>>
    /\ triage_input = <<" ","I"," ","h","a","v","e"," ","a"," ","c","l","i","n","i","c"," ","s","u","i","c","i","d","e"," ","n","o","w"," "," ">>
    /\ triage_result[1].category = "mental_crisis"

InitExpand == ExpandInit /\ TriageIdle /\ FetchIdle /\ NoCatalog /\ LoadIdle /\ AppInit /\ RateIdle /\ ThreadsIdle
SpecExpand == InitExpand /\ [][ExpandCall]_vars

\* C10: for a query that is not blank the term set holds the literal query, trimmed
\* and lowercased, and every synonym of each group whose key or one of whose synonyms
\* is a substring of the query; for an empty or blank query it is the empty set.
C10_ExpandKeepsQuery ==
    expand_terms # <<>> =>
        LET raw   == OrEmpty(expand_q)
            terms == expand_terms[1]
            blank == \A i \in DOMAIN raw : raw[i] \in WHITESPACE
        IN  IF blank THEN terms = {}
            ELSE /\ lower(strip(raw)) \in terms
                 /\ \A i \in DOMAIN SYNONYMS :
                        LET g == SYNONYMS[i]
                            words == {g.key} \cup Range(g.syns)
                        IN  (\E w \in words : Contains(raw, w) \/ Contains(lower(raw), w))
                            => Range(g.syns) \subseteq terms

\* an expanded query that triggers a group without being one of its synonyms
C10_Witness ==
    /\ expand_terms # <<>>
    /\ expand_q = <<"n","e","e","d"," ","B","u","s"," ","p","a","s","s"," ">>
    /\ <<"n","e","e","d"," ","b","u","s"," ","p","a","s","s">> \in expand_terms[1]
    /\ <<"o","r","c","a">> \in expand_terms[1]

\* an expanded blank query
C10_WitnessBlank ==
    /\ expand_terms = << {} >>
    /\ expand_q = <<" "," ">>

InitSearch == FetchInit /\ TriageIdle /\ ExpandIdle /\ LoadIdle /\ AppInit /\ RateIdle /\ ThreadsIdle
SpecSearch == InitSearch /\ [][FetchCall]_vars

\* ---- what each filter asks of a record, stated filter by filter ----
Requested(x) == x # None /\ x # <<>>
SameText(x, y) == lower(x) = lower(y)
WantsAge(a) == Requested(a.age) /\ int_of_str(a.age).ok
Satisfies(item, a) ==
    /\ Requested(a.kind) => SameText(item.type, a.kind)
    /\ Requested(a.neighborhood) => SameText(item.neighborhood, a.neighborhood)
    /\ a.walk_in_only = "True" => item.walk_in
    /\ WantsAge(a) =>
           /\ item.age_min <= int_of_str(a.age).val
           /\ item.age_max # 0 => int_of_str(a.age).val <= item.age_max
    /\ a.lgbtq = "True" => item.lgbtq_friendly
    /\ Requested(a.language) =>
           \E i \in DOMAIN item.languages : SameText(item.languages[i], a.language)
    /\ Requested(a.disability) =>
           \E i \in DOMAIN item.disability_access :
               SameText(item.disability_access[i], a.disability)
    /\ a.tribal = "True" => item.tribal_friendly
    /\ a.tribe_run = "True" => item.tribe_run
    /\ (Requested(a.q) /\ strip(a.q) # <<>>) =>
           \E t \in _expand(a.q) : Contains(Hay(item), t)

\* C6: fetch_services returns exactly the catalog records that satisfy every requested
\* filter, in catalog order; an age that is not a number is no age filter.
C6_FetchExact ==
    fetch_result # <<>> =>
        LET a   == fetch_args[1]
            res == fetch_result[1]
            its == DATA_CACHE.items
        IN  /\ \A i \in DOMAIN res : res[i] \in DOMAIN its /\ Satisfies(its[res[i]], a)
            /\ \A k \in DOMAIN its : Satisfies(its[k], a) => \E i \in DOMAIN res : res[i] = k
            /\ \A i, j \in DOMAIN res : i < j => res[i] < res[j]

\* a query with several filters at once that keeps some records and drops others,
\* one of them on the last filter alone
C6_Witness ==
    /\ fetch_result = << <<4>> >>
    /\ fetch_args[1].kind = <<"s","h","e","l","t","e","r">>
    /\ fetch_args[1].age = <<"1","7">>
    /\ fetch_args[1].tribe_run = "True"
    /\ fetch_args[1].language = <<"S","P","A","N","I","S","H">>

\* a query whose age is not a number returns what the same query without age returns
C6_WitnessBadAge ==
    /\ fetch_result = << <<1, 4>> >>
    /\ fetch_args[1].age = <<"a","b","c">>
    /\ fetch_args[1].kind = <<"s","h","e","l","t","e","r">>

InitLoad == LoadInit /\ TriageIdle /\ ExpandIdle /\ FetchIdle /\ AppInit /\ RateIdle /\ ThreadsIdle
SpecLoad == InitLoad /\ [][TryLoadData]_vars

\* ---- which source is the first to yield a record ----
GoodRow(row) ==
    /\ strip(row.name) # <<>>
    /\ \A c \in {row.beds, row.age_min, row.age_max} : c = <<>> \/ int_of_str(c).ok
    /\ \A c \in {row.lat, row.lng} : c = <<>> \/ float_of_str(c).ok
YieldsRows(content) == content.utf8 /\ \E i \in DOMAIN content.rows : GoodRow(content.rows[i])
SheetYields(s) == s.url_set /\ s.fetch = "ok" /\ ~s.blank /\ YieldsRows(s.content)
CsvYields(c) == c.exists /\ c.readable /\ YieldsRows(c.content)
JsonYields(j) ==
    /\ j.exists /\ j.readable /\ j.value.kind = "list"
    /\ \E i \in DOMAIN j.value.items : j.value.items[i].kind = "dict"
FirstYielding(srcs) ==
    IF SheetYields(srcs.sheet) THEN "sheet"
    ELSE IF CsvYields(srcs.csv) THEN "csv"
    ELSE IF JsonYields(srcs.json) THEN "json"
    ELSE "fallback"

\* C7: whatever the three sources hold, try_load_data completes without raising and
\* installs a non-empty catalog from the first source, in the order sheet, csv, json,
\* fallback, that yields a record, with the source tag naming it.
C7_LoadNeverFails ==
    load_status # "pending" =>
        /\ load_status = "done"
        /\ DATA_CACHE.items # <<>>
        /\ DATA_CACHE.source = FirstYielding(sources)

InitApp == AppInit /\ TriageIdle /\ ExpandIdle /\ FetchIdle /\ NoCatalog /\ LoadIdle /\ RateIdle /\ ThreadsIdle
SpecApp == InitApp /\ [][NextApp]_vars

\* C3: every record in EVENTS has an allowed type, and a log_event call with a type
\* outside ALLOWED_EVENT_TYPES leaves EVENTS unchanged.
C3_OnlyAllowedEvents ==
    [][ /\ \A i \in DOMAIN EVENTS' : EVENTS'[i].type \in ALLOWED_EVENT_TYPES
        /\ (req'.handler = "log_event" /\ req'.type \notin ALLOWED_EVENT_TYPES)
               => EVENTS' = EVENTS ]_vars

\* a refused log_event call made while EVENTS holds a record
C3_Witness ==
    /\ req.handler = "log_event"
    /\ req.type = "page_view"
    /\ EVENTS # <<>>

\* ---- C4 ----
IsInsert(r) == r.handler \in {"submit_form", "refer", "report"}
\* new is old with one record put in front and, if old was full, its last record gone
PushedFront(old, new, maxlen) ==
    /\ new # <<>>
    /\ Tail(new) = (IF Len(old) >= maxlen THEN SubSeq(old, 1, maxlen - 1) ELSE old)

\* C4: neither store ever holds more than its capacity; an insert into a full store
\* removes exactly the oldest record (the last one), keeps the others in their
\* newest-first order, and leaves the count at the capacity.
C4_HardCaps ==
    [][ /\ Len(EVENTS') <= EVENTS_MAXLEN
        /\ Len(INTAKES') <= INTAKES_MAXLEN
        /\ IsInsert(req') =>
               /\ PushedFront(INTAKES, INTAKES', INTAKES_MAXLEN)
               /\ INTAKES'[1].id = _next_intake_id
               /\ Len(INTAKES) = INTAKES_MAXLEN => Len(INTAKES') = INTAKES_MAXLEN
        /\ (IsInsert(req') \/ (req'.handler = "log_event"
                               /\ req'.type \in ALLOWED_EVENT_TYPES)) =>
               /\ PushedFront(EVENTS, EVENTS', EVENTS_MAXLEN)
               /\ Len(EVENTS) = EVENTS_MAXLEN => Len(EVENTS') = EVENTS_MAXLEN
        /\ EVENTS' # EVENTS => PushedFront(EVENTS, EVENTS', EVENTS_MAXLEN)
        /\ ~IsInsert(req') =>
               [i \in DOMAIN INTAKES' |-> INTAKES'[i].id] = [i \in DOMAIN INTAKES |-> INTAKES[i].id]
        /\ \A i, j \in DOMAIN INTAKES' : i < j => INTAKES'[i].id > INTAKES'[j].id ]_vars

\* both stores were full and have just taken one more record
C4_Witness ==
    /\ IsInsert(req)
    /\ Len(INTAKES) = INTAKES_MAXLEN
    /\ Len(EVENTS) = EVENTS_MAXLEN
    /\ _next_intake_id = INTAKES_MAXLEN + 2
    /\ n_requests > EVENTS_MAXLEN

\* C8: a resolve request from a session with role rw whose id matches no stored
\* intake record is answered with a not-found response.
C8_UnknownIdNotFound ==
    ( /\ req.handler = "intake_resolve"
      /\ req.role = "rw"
      /\ \A i \in DOMAIN INTAKES : str_of_int(INTAKES[i].id) # req.id )
    => resp.code = 404

\* C9: an intake record is created 'new'; its status changes only from 'new' to
\* 'resolved', only in an intake_resolve request of a session with role 'rw'; a
\* resolve request of any other session is refused and changes no intake record.
C9_StatusLifecycle ==
    [][ /\ IsInsert(req') =>
               /\ INTAKES' # <<>> /\ INTAKES'[1].status = "new"
               /\ \A i \in 2..Len(INTAKES') : INTAKES'[i] = INTAKES[i - 1]
        /\ ~IsInsert(req') =>
               /\ Len(INTAKES') = Len(INTAKES)
               /\ \A i \in DOMAIN INTAKES :
                      \/ INTAKES'[i] = INTAKES[i]
                      \/ /\ INTAKES'[i] = [INTAKES[i] EXCEPT !.status = "resolved"]
                         /\ INTAKES[i].status = "new"
                         /\ req'.handler = "intake_resolve"
                         /\ req'.role = "rw"
        /\ (req'.handler = "intake_resolve" /\ req'.role # "rw") =>
               /\ resp'.code = 403
               /\ INTAKES' = INTAKES ]_vars

\* a record has been resolved by a session with role rw while another record stays new
C9_Witness ==
    /\ req.handler = "intake_resolve"
    /\ req.role = "rw"
    /\ \E i, j \in DOMAIN INTAKES :
           INTAKES[i].status = "resolved" /\ INTAKES[j].status = "new"

\* a resolve request of a read-only session was refused while a new record is held
C9_WitnessRefused ==
    /\ req.handler = "intake_resolve"
    /\ req.role = "ro"
    /\ resp.code = 403
    /\ \E i \in DOMAIN INTAKES : INTAKES[i].status = "new"

InitRate == RateInit /\ AppInit /\ TriageIdle /\ ExpandIdle /\ FetchIdle /\ NoCatalog /\ LoadIdle /\ ThreadsIdle
SpecRate == InitRate /\ [][NextRate]_vars
SpecRateSeq == InitRate /\ [][NextRateSeq]_vars

\* C1: on one bucket, with max_hits = N: of sequential calls made within window_sec of
\* a call that found the bucket empty, the first N return True and the (N+1)-th False;
\* a call made when every timestamp it finds is older than window_sec returns True.
C1_BurstThenWindow ==
    \A ip \in Ips :
        LET h == calls[ip]
        IN  /\ \A s \in DOMAIN h : \A k \in s..Len(h) :
                   ( /\ h[s].found = <<>>
                     /\ k - s <= max_hits
                     /\ \A m \in s..k : h[m].now - h[s].now <= window_sec )
                   => h[k].ret = (k - s < max_hits)
            /\ \A k \in DOMAIN h :
                   (\A i \in DOMAIN h[k].found : h[k].now - h[k].found[i] > window_sec)
                   => h[k].ret = TRUE

\* a burst of max_hits + 1 calls, the last refused, then a call admitted after the window
C1_Witness ==
    \E ip \in Ips :
        LET h == calls[ip]
        IN  /\ Len(h) = max_hits + 2
            /\ max_hits = MaxHits
            /\ \A k \in 1..max_hits : h[k].ret = TRUE
            /\ h[max_hits + 1].ret = FALSE
            /\ h[max_hits + 1].now - h[1].now <= window_sec
            /\ h[max_hits + 2].found # <<>>
            /\ h[max_hits + 2].ret = TRUE

\* C2: the prune-check-append steps of two callers never interleave, so no bucket ever
\* holds more than max_hits timestamps (two callers never both take the last slot).
InCritical(t) == pc[t] \in {"prune", "check", "append"}
C2_MutualExclusion ==
    /\ \A t, u \in Threads : (InCritical(t) /\ InCritical(u)) => t = u
    /\ \A t \in Threads : InCritical(t) => RATE_LOCK = t
    /\ \A ip \in Ips : Len(RATE[ip]) <= max_hits

\* one caller holds the lock with one slot left while the other waits for the same bucket
C2_Witness ==
    /\ pc["t1"] = "append"
    /\ pc["t2"] = "lock"
    /\ frame["t1"].ip = frame["t2"].ip
    /\ Len(RATE[frame["t1"].ip]) = max_hits - 1
    /\ max_hits = MaxHits

InitCsv == CsvOnlyInit /\ TriageIdle /\ ExpandIdle /\ FetchIdle /\ AppInit /\ RateIdle /\ ThreadsIdle
SpecCsv == InitCsv /\ [][TryLoadData]_vars

\* ---- the rows of services.csv and the catalog records that bear their names ----
IntColumns == {"beds", "age_min", "age_max"}
FloatColumns == {"lat", "lng"}
Named(row) == strip(row.name) # <<>>
UnparsedIn(row, col) ==
    /\ row[col] # <<>>
    /\ IF col \in IntColumns THEN ~int_of_str(row[col]).ok ELSE ~float_of_str(row[col]).ok
Unparsed(row) == \E col \in IntColumns \cup FloatColumns : UnparsedIn(row, col)
ZeroOf(col) == IF col \in IntColumns THEN 0 ELSE FloatZero
RecordsOf(row) ==
    { i \in DOMAIN DATA_CACHE.items : DATA_CACHE.items[i].name = strip(row.name) }
CsvFileRows == sources.csv.content.rows

\* C11 as stated: a CSV row that has a name and holds, in beds, age_min, age_max, lat
\* or lng, text that does not parse as a number is loaded with that field set to zero.
C11_UnparsedLoadsAsZero ==
    load_status = "done" =>
        \A k \in DOMAIN CsvFileRows, col \in IntColumns \cup FloatColumns :
            (Named(CsvFileRows[k]) /\ UnparsedIn(CsvFileRows[k], col)) =>
                \E i \in RecordsOf(CsvFileRows[k]) : DATA_CACHE.items[i][col] = ZeroOf(col)

\* C11: a CSV row that has a name and holds, in beds, age_min, age_max, lat or lng,
\* text that does not parse as a number is skipped: the catalog has no record of it,
\* while the other rows are loaded.  A named row whose numeric cells all parse or are
\* empty is loaded, each empty numeric cell as zero.
C11_UnparsedRowSkipped ==
    load_status = "done" =>
        \A k \in DOMAIN CsvFileRows :
            LET row == CsvFileRows[k]
            IN  Named(row) =>
                  /\ Unparsed(row) => RecordsOf(row) = {}
                  /\ ~Unparsed(row) =>
                        \E i \in RecordsOf(row) :
                            \A col \in IntColumns \cup FloatColumns :
                                row[col] = <<>> => DATA_CACHE.items[i][col] = ZeroOf(col)

\* a named row with an unparsable age_min ahead of a plain row: only the plain row is
\* in the catalog loaded from services.csv
C11_Witness ==
    /\ load_status = "done"
    /\ Len(CsvFileRows) = 2
    /\ Named(CsvFileRows[1])
    /\ CsvFileRows[1].age_min = <<"n","/","a">>
    /\ DATA_CACHE.source = "csv"
    /\ Len(DATA_CACHE.items) = 1
    /\ DATA_CACHE.items[1].name = <<"H","a","r","b","o","r"," ","&"," ","V","a","l","e">>
    /\ DATA_CACHE.items[1].beds = 0

InitIntake == AppInit /\ ThreadsInit /\ TriageIdle /\ ExpandIdle /\ FetchIdle /\ NoCatalog /\ LoadIdle /\ RateIdle
SpecIntake == InitIntake /\ [][NextIntake]_vars

\* the ids allocated so far: one per request that is past the counter's write
Allocating == {"reports_append", "read_id", "load_v", "store_v"}
Allocated == n_requests - Cardinality({t \in Threads : at[t] \in Allocating})
\* the threads that hold an iid they have read
HoldsId(t) == at[t] \in {"load_v", "store_v", "intakes_append", "log_event"}

\* C12: under every interleaving of concurrent submit_form, refer and report requests
\* the intake ids handed out are pairwise distinct and form 1, 2, 3, ... without gaps:
\* no two requests in progress hold the same id, no two records of INTAKES carry the
\* same id, and the counter is one more than the number of ids handed out.
C12_DistinctIds ==
    /\ \A t, u \in Threads : (t # u /\ HoldsId(t) /\ HoldsId(u)) => local[t].iid # local[u].iid
    /\ \A i, j \in DOMAIN INTAKES : i # j => INTAKES[i].id # INTAKES[j].id
    /\ _next_intake_id = 1 + Allocated

\* C13: under every interleaving of concurrent check_rate calls on one bucket the
\* timestamps in the bucket are non-decreasing from front to back, so when a caller
\* compares the bucket's length with max_hits, after its pruning from the front, the
\* bucket holds no timestamp older than window_sec.
C13_BucketSorted ==
    /\ \A ip \in Ips : \A i, j \in DOMAIN RATE[ip] : i < j => RATE[ip][i] <= RATE[ip][j]
    /\ \A t \in Threads :
           pc[t] = "check" =>
               \A i \in DOMAIN RATE[frame[t].ip] :
                   frame[t].now - RATE[frame[t].ip][i] <= window_sec

\* C14: a message that is one keyword of one of the eight groups, alone, is classified
\* to that group's category, and a message that contains no keyword of any group is
\* classified 'general'.
C14_KeywordToOwnGroup ==
    triage_result # <<>> =>
        /\ \A g \in DOMAIN TriageGroups :
               triage_input \in Range(TriageGroups[g].keys)
                   => triage_result[1].category = TriageGroups[g].category
        /\ (\A k \in TriageKeywords : ~Contains(lower(OrEmpty(triage_input)), k))
               => triage_result[1].category = "general"

InitRequery == RequeryInit /\ TriageIdle /\ ExpandIdle /\ LoadIdle /\ AppInit /\ RateIdle /\ ThreadsIdle
SpecRequery == InitRequery /\ [][FetchCall \/ NextQuery]_vars

AgeBelow18(a) == WantsAge(a) /\ int_of_str(a.age).val < 18
\* the records a query returns, as they are when it returns
ReturnedRecords == { DATA_CACHE.items[i] : i \in Range(fetch_result[1]) }
\* what the same query returns on the catalog as loaded
FreshAnswer(a) ==
    LET r == fetch_services(SearchCatalog, a)
    IN  { r.items[i] : i \in Range(r.result) }

\* C15: the result of fetch_services depends only on its arguments and the catalog as
\* loaded, not on earlier queries: a record returned by a query that gives no age below
\* 18 carries no minor-applicable annotation, and apart from that annotation no query
\* changes a catalog record.
C15_AnnotationEphemeral ==
    fetch_result # <<>> =>
        /\ ReturnedRecords = FreshAnswer(fetch_args[1])
        /\ ~AgeBelow18(fetch_args[1]) => \A x \in ReturnedRecords : ~x._minor_note
        /\ \A i \in DOMAIN SearchCatalog :
               [DATA_CACHE.items[i] EXCEPT !._minor_note = FALSE] = SearchCatalog[i]
====
